---- MODULE Spec2Model ----
(***************************************************************************)
(* Model of DBTLogParser.dbt_log_parser (error_parsing_utils/              *)
(* dbt_log_parser.py): the manifest is loaded and filtered, ownership is   *)
(* resolved by ManifestProcessor, run results are parsed and filtered by   *)
(* RunResultsProcessor, and JoinDf joins both into the alert table.        *)
(*                                                                         *)
(* Text is modelled character by character: a Python str is a sequence of  *)
(* one-character strings, so that the regular expressions, startswith and  *)
(* split are computed on the characters as pandas computes them.  A        *)
(* DataFrame is a record of its column names, in order, and its rows, in   *)
(* order; a row is a function from column name to cell.  The pandas calls  *)
(* are modelled as pandas 1.x and 2.x run them, without copy-on-write: the *)
(* in-place fillna of merge_slack_ids changes the frame.                   *)
(***************************************************************************)
EXTENDS Integers, Sequences, FiniteSets, TLC

(* ------------------------------ bounds --------------------------------- *)

\* most units in one manifest
MaxUnits == 3
\* most records in one run_results.json
MaxResults == 3

(* ------------------------------- cells --------------------------------- *)

\* float nan, what pandas stores for a missing str.extract match and for a
\* cell of a column created by enlargement
NaN == <<"NaN">>
\* Python None
None == <<"None">>

IsNull(v) == v = NaN \/ v = None

\* str(x) of a cell
PyStr(v) ==
    IF v = NaN THEN <<"n", "a", "n">>
    ELSE IF v = None THEN <<"N", "o", "n", "e">>
    ELSE v

StartsWith(s, prefix) ==
    /\ Len(s) >= Len(prefix)
    /\ SubSeq(s, 1, Len(prefix)) = prefix

SetMin(S) == CHOOSE x \in S : \A y \in S : x <= y
SetMax(S) == CHOOSE x \in S : \A y \in S : x >= y

(* ------------------------ regular expressions -------------------------- *)

Upper == {"A", "B", "C", "D", "E", "F", "G", "H", "I", "J", "K", "L", "M",
          "N", "O", "P", "Q", "R", "S", "T", "U", "V", "W", "X", "Y", "Z"}
Digit == {"0", "1", "2", "3", "4", "5", "6", "7", "8", "9"}
\* [A-Z0-9]
UpperOrDigit == Upper \cup Digit
\* \s
WhiteSpace == {" ", "\t", "\n", "\r", "\f"}

DataOwnerLabel == <<"D", "a", "t", "a", " ", "O", "w", "n", "e", "r", ":">>
SlackLabel == <<"S", "l", "a", "c", "k", " ", "C", "h", "a", "n", "n", "e",
                "l", " ", "I", "D", ":">>

\* the last index of the longest run of characters of class, starting at j
\* (j - 1 when the run is empty)
RunEnd(s, j, class) ==
    SetMax({k \in (j - 1)..Len(s) : \A m \in j..k : s[m] \in class})

\* the index where a match of  label \s* [A-Z0-9]+  starting at i ends, 0
\* when there is none
MatchEnd(label, s, i) ==
    IF i + Len(label) - 1 > Len(s) \/ SubSeq(s, i, i + Len(label) - 1) # label
    THEN 0
    ELSE LET j == RunEnd(s, i + Len(label), WhiteSpace) + 1
             k == RunEnd(s, j, UpperOrDigit)
         IN  IF k >= j THEN k ELSE 0

\* Series.str.extract(r"(<label>\s*[A-Z0-9]+)"): group 1 of the first match,
\* which is the whole match, the label included; nan without a match
Extract(label, s) ==
    LET starts == {i \in 1..Len(s) : MatchEnd(label, s, i) > 0}
    IN  IF starts = {} THEN NaN
        ELSE LET i == SetMin(starts)
             IN  SubSeq(s, i, MatchEnd(label, s, i))

(* ------------------------------ split ---------------------------------- *)

RECURSIVE Split(_, _)
\* s.split(sep), sep one character
Split(s, sep) ==
    LET at == {i \in 1..Len(s) : s[i] = sep}
    IN  IF at = {} THEN <<s>>
        ELSE LET i == SetMin(at)
             IN  <<SubSeq(s, 1, i - 1)>> \o Split(SubSeq(s, i + 1, Len(s)), sep)

RECURSIVE Join(_, _)
\* sep.join(parts)
Join(parts, sep) ==
    IF parts = <<>> THEN <<>>
    ELSE IF Len(parts) = 1 THEN parts[1]
    ELSE parts[1] \o <<sep>> \o Join(Tail(parts), sep)

(* ---------------------------- data frames ------------------------------ *)

Frame(columns, rows) == [columns |-> columns, rows |-> rows]

\* pd.DataFrame([]): no column, no row
EmptyFrame == Frame(<<>>, <<>>)

HasColumn(df, c) == \E i \in 1..Len(df.columns) : df.columns[i] = c

\* df.at[i, c] = v, creating column c (nan in the other rows) when missing
SetAt(df, i, c, v) ==
    IF HasColumn(df, c)
    THEN Frame(df.columns, [df.rows EXCEPT ![i] = [@ EXCEPT ![c] = v]])
    ELSE Frame(Append(df.columns, c),
               [j \in 1..Len(df.rows) |->
                   [k \in DOMAIN df.rows[j] \cup {c} |->
                       IF k # c THEN df.rows[j][k]
                       ELSE IF j = i THEN v ELSE NaN]])

\* df[[c1, ..., cn]]
Select(df, cols) ==
    Frame(cols, [j \in 1..Len(df.rows) |->
                    [k \in {cols[n] : n \in 1..Len(cols)} |-> df.rows[j][k]]])

(* ------------------------------ inputs --------------------------------- *)

ModelKind == <<"m", "o", "d", "e", "l">>
TestKind == <<"t", "e", "s", "t">>
SnapshotKind == <<"s", "n", "a", "p", "s", "h", "o", "t">>
SeedKind == <<"s", "e", "e", "d">>

\* unit ids as dbt writes them: <resource type>.<package>.<name>, and for a
\* test a fourth segment, the hash
ModelA == ModelKind \o <<".", "s", ".", "a">>
ModelB == ModelKind \o <<".", "s", ".", "b">>
TestT == TestKind \o <<".", "s", ".", "t", ".", "h">>
SeedX == SeedKind \o <<".", "s", ".", "x">>
\* a run-results id of two segments
ShortId == ModelKind \o <<".", "s">>

UnitIds == <<ModelA, ModelB, TestT, SeedX>>

DescEmpty == <<>>
\* "Data Owner: TX Slack Channel ID: C1"
DescFull ==
    DataOwnerLabel \o <<" ", "T", "X", " ">> \o SlackLabel \o <<" ", "C", "1">>
\* "ok Slack Channel ID: X9!"
DescWrongPrefix == <<"o", "k", " ">> \o SlackLabel \o <<" ", "X", "9", "!">>

\* "Data Owner: tx Slack Channel ID:C2": no owner token, no white space
DescOther ==
    DataOwnerLabel \o <<" ", "t", "x", " ">> \o SlackLabel \o <<"C", "2">>

Descriptions == {DescEmpty, DescFull, DescWrongPrefix, DescOther}

\* Optional[NodeDeps]: <<>> is None, <<d>> is the NodeDeps d
NoDeps == <<>>
Deps(nodes) == <<[nodes |-> nodes]>>

DependsOnChoices ==
    {NoDeps, Deps(<<>>), Deps(<<ModelA>>), Deps(<<ModelB, ModelA>>),
     Deps(<<SeedX>>)}

\* the depends_on a unit of this id can have: no unit depends on itself
DependsOnOf(id) ==
    {dep \in DependsOnChoices :
        dep = NoDeps \/ \A k \in 1..Len(dep[1].nodes) : dep[1].nodes[k] # id}

\* the units a manifest can hold under the id of index n of UnitIds; the key
\* of a unit in the nodes dict is its unique_id.  Manifest.filter drops a seed
\* before any of its fields is read, so one seed stands for all of them: it
\* has a description and no depends_on
UnitChoices(n) ==
    {[unique_id |-> UnitIds[n],
      path |-> Split(UnitIds[n], ".")[3] \o <<".", "s", "q", "l">>,
      resource_type |-> Split(UnitIds[n], ".")[1],
      description |-> d,
      depends_on |-> dep] :
        d \in IF UnitIds[n] = SeedX THEN {DescFull} ELSE Descriptions,
        dep \in IF UnitIds[n] = SeedX THEN {NoDeps} ELSE DependsOnOf(UnitIds[n])}

RECURSIVE NodesFrom(_, _)
\* the node dicts, in file order, of at most left units with ids of index >= n
NodesFrom(n, left) ==
    IF n > Len(UnitIds) \/ left = 0 THEN {<<>>}
    ELSE NodesFrom(n + 1, left)
         \cup {<<u>> \o rest : u \in UnitChoices(n), rest \in NodesFrom(n + 1, left - 1)}

\* the parsed manifest.json files that pass Manifest's validation
Manifests == {[nodes |-> ns] : ns \in NodesFrom(1, MaxUnits)}

\* the manifests of the whole-pipeline runs: every retained unit has a
\* depends_on, of no node or of ModelA, and a description that is empty or
\* holds an owner and a channel
PipelineManifests ==
    {m \in Manifests :
        \A i \in 1..Len(m.nodes) :
            \/ m.nodes[i].resource_type = SeedKind
            \/ /\ m.nodes[i].description \in {DescEmpty, DescFull}
               /\ m.nodes[i].depends_on \in {Deps(<<>>), Deps(<<ModelA>>)}}

Fail == <<"f", "a", "i", "l">>
Warn == <<"w", "a", "r", "n">>
Error == <<"e", "r", "r", "o", "r">>
Pass == <<"p", "a", "s", "s">>

\* one record of "results"; timing, failures and message are opaque here
Result(id, st) ==
    [unique_id |-> id, status |-> st, timing |-> <<"t", "0">>,
     failures |-> <<"1">>, message |-> <<"m", "s", "g">>]

ResultChoices ==
    {Result(ModelA, Fail), Result(ModelA, Pass), Result(ModelB, Fail),
     Result(TestT, Warn), Result(ShortId, Fail)}

\* the "results" lists of the run_results.json files
RunResultsFiles ==
    UNION {[1..n -> ResultChoices] : n \in 0..MaxResults}

(* ------------------------------- state --------------------------------- *)

VARIABLES
    pc,               \* where dbt_log_parser is
    data,             \* the parsed manifest.json
    m2,               \* the list of dicts built from the retained nodes
    lookup_result,    \* the frame process_manifest returns, changed in place
    manifest_result,  \* the frame merge_slack_ids returns
    results,          \* the "results" list of run_results.json
    rr_result,        \* the frame process_data returns
    final_df,         \* the frame join_dataframes returns
    error             \* the exception that ended the run, "" for none

vars == <<pc, data, m2, lookup_result, manifest_result, results, rr_result,
          final_df, error>>

\* dbt_log_parser is entered with the manifest file m
InitWith(m) ==
    /\ pc = "start"
    /\ data = m
    /\ m2 = <<>>
    /\ lookup_result = EmptyFrame
    /\ manifest_result = EmptyFrame
    /\ results = <<>>
    /\ rr_result = EmptyFrame
    /\ final_df = EmptyFrame
    /\ error = ""

Init == \E m \in PipelineManifests : InitWith(m)

InitResolver == \E m \in Manifests : InitWith(m)

\* an exception leaves dbt_log_parser: nothing is returned
Raise(exc) ==
    /\ pc' = "raised"
    /\ error' = exc

(* --------------------------- manifest model ---------------------------- *)

\* Manifest.filter: the nodes of resource type test, snapshot or model
ManifestFilter(nodes) ==
    SelectSeq(nodes,
              LAMBDA v : v.resource_type \in {TestKind, SnapshotKind, ModelKind})

\* m2: one dict per retained node; n.depends_on.nodes needs a NodeDeps
BuildRows(nodes) ==
    [i \in 1..Len(nodes) |->
        [node |-> nodes[i].unique_id,
         description |-> nodes[i].description,
         path |-> nodes[i].path,
         unique_id |-> nodes[i].unique_id,
         depends_on |-> nodes[i].depends_on[1].nodes]]

\* Manifest(**data) and the list comprehension of dbt_log_parser
LoadManifest ==
    /\ pc = "start"
    /\ LET nodes == ManifestFilter(data.nodes)
       IN  IF \E i \in 1..Len(nodes) : nodes[i].depends_on = NoDeps
           THEN /\ Raise("AttributeError")
                /\ UNCHANGED m2
           ELSE /\ m2' = BuildRows(nodes)
                /\ pc' = "loaded"
                /\ UNCHANGED error
    /\ UNCHANGED <<data, lookup_result, manifest_result, results, rr_result,
                   final_df>>

(* -------------------------- ownership resolver ------------------------- *)

ManifestColumns ==
    <<"unique_id", "node", "model_owner", "slack_id", "path", "depends_on">>

\* the last dependency instead of the first
LastDependency(x) == IF Len(x) > 0 THEN x[Len(x)] ELSE None

\* lambda x: x[0] if len(x) > 0 else None
FirstDependency(x) == IF Len(x) > 0 THEN x[1] ELSE None

\* ManifestProcessor.process_manifest, for a non-empty list of dicts
ProcessManifestFrame(rows) ==
    Frame(ManifestColumns,
          [i \in 1..Len(rows) |->
              [unique_id |-> rows[i].unique_id,
               node |-> rows[i].node,
               model_owner |-> Extract(DataOwnerLabel, rows[i].description),
               slack_id |-> Extract(SlackLabel, rows[i].description),
               path |-> rows[i].path,
               depends_on |-> FirstDependency(rows[i].depends_on)]])

\* pd.DataFrame([]) has no "description" column
ProcessManifest ==
    /\ pc = "loaded"
    /\ IF m2 = <<>>
       THEN /\ Raise("KeyError")
            /\ UNCHANGED lookup_result
       ELSE /\ lookup_result' = ProcessManifestFrame(m2)
            /\ pc' = "processed"
            /\ UNCHANGED error
    /\ UNCHANGED <<data, m2, manifest_result, results, rr_result, final_df>>

\* df2.loc[df2["unique_id"] == unique_id]: the indexes of the matching rows
RowsWithId(df, unique_id) ==
    {j \in 1..Len(df.rows) : df.rows[j]["unique_id"] = unique_id}

\* one turn of the loop of lookup_related_node_for_tests, on the row that
\* iterrows yields at index i
LookupRow(df, row, i) ==
    IF StartsWith(row["unique_id"], TestKind)
    THEN LET depends_on_row == RowsWithId(df, row["depends_on"])
         IN  IF depends_on_row = {} THEN df  \* IndexError, passed over
             ELSE SetAt(df, i, "slack_id_2",
                        PyStr(df.rows[SetMin(depends_on_row)]["slack_id"]))
    ELSE df

RECURSIVE LookupLoop(_, _, _)
\* the loop from index i on; iterrows yields the rows as they were at its call
LookupLoop(df, snapshot, i) ==
    IF i > Len(snapshot) THEN df
    ELSE LookupLoop(LookupRow(df, snapshot[i], i), snapshot, i + 1)

\* ManifestProcessor.lookup_related_node_for_tests
LookupRelatedNodeForTests ==
    /\ pc = "processed"
    /\ lookup_result' = LookupLoop(lookup_result, lookup_result.rows, 1)
    /\ pc' = "looked_up"
    /\ UNCHANGED <<data, m2, manifest_result, results, rr_result, final_df,
                   error>>

\* the configured default channel, "C0514AZSN9Z"
DEFAULT_SLACK_ID ==
    <<"C", "0", "5", "1", "4", "A", "Z", "S", "N", "9", "Z">>

\* Series.combine_first, one cell
CombineFirst(a, b) == IF IsNull(a) THEN b ELSE a

\* Series.fillna, one cell
FillNa(v, default_value) == IF IsNull(v) THEN default_value ELSE v

\* no value is replaced
MaskNothing(v) == FALSE

\* the mask of merge_slack_ids: not null and not starting with "C"
Mask(v) == ~IsNull(v) /\ ~StartsWith(v, <<"C">>)

\* the slack_id cell of a row after the three steps of merge_slack_ids
MergedSlackId(row, default_value) ==
    LET filled == FillNa(CombineFirst(row["slack_id"], row["slack_id_2"]),
                         default_value)
    IN  IF Mask(filled) THEN default_value ELSE filled

\* df2 after the in-place steps of merge_slack_ids
MergeInPlace(df, default_value) ==
    Frame(df.columns,
          [j \in 1..Len(df.rows) |->
              [df.rows[j] EXCEPT !["slack_id"] =
                  MergedSlackId(df.rows[j], default_value)]])

\* ManifestProcessor.merge_slack_ids; df2["slack_id_2"] needs the column
MergeSlackIds ==
    /\ pc = "looked_up"
    /\ IF ~HasColumn(lookup_result, "slack_id_2")
       THEN /\ Raise("KeyError")
            /\ UNCHANGED <<lookup_result, manifest_result>>
       ELSE /\ lookup_result' = MergeInPlace(lookup_result, DEFAULT_SLACK_ID)
            /\ manifest_result' = Select(lookup_result', ManifestColumns)
            /\ pc' = "merged"
            /\ UNCHANGED error
    /\ UNCHANGED <<data, m2, results, rr_result, final_df>>

(* -------------------------- run-result filter -------------------------- *)

RunResultColumns == <<"node", "status", "timing", "result", "message">>

\* RunResultsProcessor.parse_data: one row per record of "results"
ParseData(rs) ==
    IF rs = <<>> THEN EmptyFrame
    ELSE Frame(RunResultColumns,
               [i \in 1..Len(rs) |->
                   [node |-> rs[i].unique_id,
                    status |-> rs[i].status,
                    timing |-> rs[i].timing,
                    result |-> rs[i].failures,
                    message |-> rs[i].message]])

\* the default notification_status
NotificationStatus == {Fail, Warn, Error}

\* every row is kept
FilterNothing(df, statuses) == df

\* df[df.status.isin(notification_status)]
FilterStatus(df, statuses) ==
    Frame(df.columns, SelectSeq(df.rows, LAMBDA row : row["status"] \in statuses))

\* the number of columns of df["node"].str.split(".", expand=True)
SplitWidth(df) ==
    SetMax({Len(Split(df.rows[i]["node"], ".")) : i \in 1..Len(df.rows)})

\* the cell of column k (from 0) of the expanded split: None past the segments
SplitCell(node, k) ==
    LET parts == Split(node, ".")
    IN  IF k + 1 <= Len(parts) THEN parts[k + 1] ELSE None

\* the frame with process_type, schema_name, object_name and clean_node_name
WithSplitColumns(df) ==
    Frame(df.columns \o <<"process_type", "schema_name", "object_name",
                          "clean_node_name">>,
          [i \in 1..Len(df.rows) |->
              LET row == df.rows[i]
                  extra == [process_type |-> SplitCell(row["node"], 0),
                            schema_name |-> SplitCell(row["node"], 1),
                            object_name |-> SplitCell(row["node"], 2),
                            clean_node_name |->
                                Join(<<SplitCell(row["node"], 0),
                                       SplitCell(row["node"], 1),
                                       SplitCell(row["node"], 2)>>, ".")]
              IN  [c \in DOMAIN row \cup DOMAIN extra |->
                      IF c \in DOMAIN row THEN row[c] ELSE extra[c]]])

\* the exception process_data raises on df, "" when it returns: df["node"] of a
\* frame with no column and df2[1], df2[2] of a split narrower than three
\* columns are KeyErrors; ".".join of a list holding None is a TypeError
ProcessDataError(df) ==
    IF ~HasColumn(df, "node") THEN "KeyError"
    ELSE IF SplitWidth(df) < 3 THEN "KeyError"
    ELSE IF \E i \in 1..Len(df.rows) : SplitCell(df.rows[i]["node"], 2) = None
         THEN "TypeError"
    ELSE ""

\* RunResultsProcessor.process_data, which reads run_results.json
ProcessData ==
    /\ pc = "merged"
    /\ \E rs \in RunResultsFiles :
          /\ results' = rs
          /\ LET df == ParseData(rs)
             IN  IF ProcessDataError(df) # ""
                 THEN /\ Raise(ProcessDataError(df))
                      /\ UNCHANGED rr_result
                 ELSE /\ rr_result' = FilterStatus(WithSplitColumns(df),
                                                   NotificationStatus)
                      /\ pc' = "filtered"
                      /\ UNCHANGED error
    /\ UNCHANGED <<data, m2, lookup_result, manifest_result, final_df>>

(* ----------------------------- join engine ----------------------------- *)

ColumnSet(df) == {df.columns[n] : n \in 1..Len(df.columns)}

\* the name of column c of one side in the merged frame: the suffix is added
\* to a name both sides have
Suffixed(c, other, suffix) == IF c \in ColumnSet(other) THEN c \o suffix ELSE c

RECURSIVE CrossPairs(_, _, _, _, _, _)
\* every pair of a left and a right row, the keys not compared
CrossPairs(left, right, left_on, right_on, i, j) ==
    IF i > Len(left.rows) THEN <<>>
    ELSE IF j > Len(right.rows)
         THEN CrossPairs(left, right, left_on, right_on, i + 1, 1)
    ELSE <<(<<i, j>>)>> \o CrossPairs(left, right, left_on, right_on, i, j + 1)

RECURSIVE MatchingPairs(_, _, _, _, _, _)
\* the pairs <<i, j>>, from <<i, j>> on, of a left row i and a right row j with
\* equal keys, in the order of the left rows and, within one, of the right rows
MatchingPairs(left, right, left_on, right_on, i, j) ==
    IF i > Len(left.rows) THEN <<>>
    ELSE IF j > Len(right.rows)
         THEN MatchingPairs(left, right, left_on, right_on, i + 1, 1)
    ELSE (IF left.rows[i][left_on] = right.rows[j][right_on]
          THEN <<(<<i, j>>)>> ELSE <<>>)
         \o MatchingPairs(left, right, left_on, right_on, i, j + 1)

\* pd.merge(left, right, left_on=..., right_on=...): the inner join
Merge(left, right, left_on, right_on) ==
    LET lcols == [n \in 1..Len(left.columns) |->
                     Suffixed(left.columns[n], right, "_x")]
        rcols == [n \in 1..Len(right.columns) |->
                     Suffixed(right.columns[n], left, "_y")]
        pairs == MatchingPairs(left, right, left_on, right_on, 1, 1)
        cell(p, c) ==
            IF \E n \in 1..Len(lcols) : lcols[n] = c
            THEN left.rows[p[1]][left.columns[CHOOSE n \in 1..Len(lcols) : lcols[n] = c]]
            ELSE right.rows[p[2]][right.columns[CHOOSE n \in 1..Len(rcols) : rcols[n] = c]]
    IN  Frame(lcols \o rcols,
              [n \in 1..Len(pairs) |->
                  [c \in {lcols[k] : k \in 1..Len(lcols)}
                         \cup {rcols[k] : k \in 1..Len(rcols)} |->
                      cell(pairs[n], c)]])

\* the positions of unique_id, node, model_owner, slack_id, path, depends_on,
\* status, message and timing
OwnershipFirstPositions == <<9, 10, 11, 12, 13, 14, 1, 4, 2>>

\* the positions, from 0, that join_dataframes keeps
JoinPositions == <<8, 14, 1, 3, 4, 5, 11, 12, 13>>

\* df.iloc[:, positions]
ILoc(df, positions) ==
    Select(df, [n \in 1..Len(positions) |-> df.columns[positions[n] + 1]])

\* JoinDf.join_dataframes; wrap_text is off, the default of DBTLogParser
JoinDataframes ==
    /\ pc = "filtered"
    /\ final_df' = ILoc(Merge(rr_result, manifest_result, "node", "unique_id"),
                        JoinPositions)
    /\ pc' = "done"
    /\ UNCHANGED <<data, m2, lookup_result, manifest_result, results,
                   rr_result, error>>

(* --------------------------- specification ----------------------------- *)

Next ==
    \/ LoadManifest
    \/ ProcessManifest
    \/ LookupRelatedNodeForTests
    \/ MergeSlackIds
    \/ ProcessData
    \/ JoinDataframes

\* the whole pipeline
Spec == Init /\ [][Next]_vars

\* the resolver steps alone, over every manifest of the bounds
NextResolver ==
    \/ LoadManifest
    \/ ProcessManifest
    \/ LookupRelatedNodeForTests
    \/ MergeSlackIds

SpecResolver == InitResolver /\ [][NextResolver]_vars

(* ------------------------ vocabulary of the claims --------------------- *)

\* the nodes Manifest retains, in the order of the rows built from them
Retained == ManifestFilter(data.nodes)

\* the <TOKEN> of "<label> <TOKEN>" in a description, nan when there is none
TokenAfter(label, s) ==
    LET v == Extract(label, s)
    IN  IF v = NaN THEN NaN
        ELSE SubSeq(v, RunEnd(v, Len(label) + 1, WhiteSpace) + 1, Len(v))

AlertingStatuses == {Fail, Warn, Error}

\* the first three segments of a unit id, joined again
CleanId(id) == Join(SubSeq(Split(id, "."), 1, 3), ".")

\* merge_slack_ids has returned
Resolved == manifest_result # EmptyFrame

\* merge_slack_ids has been called, and has returned or raised
MergeCalled == lookup_result # EmptyFrame /\ pc \notin {"processed", "looked_up"}

\* the resolver steps are over, by a return or by an exception
ResolverEnded == pc \notin {"start", "loaded", "processed", "looked_up"}

\* process_data has been called, and has returned or raised
ProcessDataCalled ==
    \/ pc \in {"filtered", "done"}
    \/ pc = "raised" /\ Resolved

\* the index of the row of the first dependency of row i of m2, 0 when the
\* unit has no dependency or the first one is in no row
FirstDependencyRow(i) ==
    IF m2[i].depends_on = <<>> THEN 0
    ELSE LET js == {j \in 1..Len(m2) : m2[j].unique_id = m2[i].depends_on[1]}
         IN  IF js = {} THEN 0 ELSE SetMin(js)

IsTest(i) == Retained[i].resource_type = TestKind

(* -------------------------------- C1 ----------------------------------- *)

\* C1: when the pipeline returns, every unit whose description embeds
\* "Data Owner: O" and "Slack Channel ID: K", K starting with C, and that has
\* one run-result record, of an alerting status S, has exactly one alert row,
\* with model_owner = O, slack_id = K and status = S.
C1_SelfResolution ==
    pc = "done" =>
        \A i \in 1..Len(m2) :
            LET O == TokenAfter(DataOwnerLabel, m2[i].description)
                K == TokenAfter(SlackLabel, m2[i].description)
                recs == {r \in 1..Len(results) :
                            results[r].unique_id = m2[i].unique_id}
                out == {n \in 1..Len(final_df.rows) :
                           final_df.rows[n]["clean_node_name"]
                               = CleanId(m2[i].unique_id)}
            IN  (/\ O # NaN
                 /\ K # NaN
                 /\ StartsWith(K, <<"C">>)
                 /\ Cardinality(recs) = 1
                 /\ \A r \in recs : results[r].status \in AlertingStatuses)
                => /\ Cardinality(out) = 1
                   /\ \A n \in out : \A r \in recs :
                         /\ final_df.rows[n]["model_owner"] = O
                         /\ final_df.rows[n]["slack_id"] = K
                         /\ final_df.rows[n]["status"] = results[r].status

(* -------------------------------- C2 ----------------------------------- *)

\* the value the merge of the self and inherited channels gives for row j
MergedChannel(j) ==
    CombineFirst(Extract(SlackLabel, m2[j].description),
                 lookup_result.rows[j]["slack_id_2"])

\* C2: in the frame merge_slack_ids returns, every slack_id starts with "C",
\* and it is the default wherever the merge of the self and inherited
\* channels gave nothing or a value that does not start with "C".
C2_ChannelValid ==
    Resolved =>
        \A j \in 1..Len(manifest_result.rows) :
            LET final == manifest_result.rows[j]["slack_id"]
            IN  /\ StartsWith(final, <<"C">>)
                /\ (IsNull(MergedChannel(j)) \/ ~StartsWith(MergedChannel(j), <<"C">>))
                   => final = DEFAULT_SLACK_ID

\* a unit whose description gives the channel X9 ends with the default
C2_Witness ==
    /\ Resolved
    /\ \E j \in 1..Len(manifest_result.rows) :
          /\ TokenAfter(SlackLabel, m2[j].description) = <<"X", "9">>
          /\ ~IsNull(MergedChannel(j))
          /\ manifest_result.rows[j]["slack_id"] = DEFAULT_SLACK_ID

(* -------------------------------- C3 ----------------------------------- *)

\* C3: a test whose description has no Slack Channel ID and whose first
\* dependency is a unit with its own channel K ends with slack_id = K and an
\* empty model_owner.
C3_TestInheritance ==
    Resolved =>
        \A i \in 1..Len(m2) :
            (/\ IsTest(i)
             /\ Extract(SlackLabel, m2[i].description) = NaN
             /\ FirstDependencyRow(i) # 0
             /\ StartsWith(TokenAfter(SlackLabel,
                                      m2[FirstDependencyRow(i)].description),
                           <<"C">>))
            => /\ manifest_result.rows[i]["slack_id"]
                    = TokenAfter(SlackLabel, m2[FirstDependencyRow(i)].description)
               /\ IsNull(manifest_result.rows[i]["model_owner"])

(* -------------------------------- C4 ----------------------------------- *)

\* unit i has no dependency to inherit from
NoViableDependency(i) == ~IsTest(i) \/ FirstDependencyRow(i) = 0

\* C4: once merge_slack_ids was called, every unit with no owner and no
\* channel in its description and no viable dependency has a row in the
\* resolver output, with the default channel and an empty owner.
C4_DefaultFallback ==
    MergeCalled =>
        \A i \in 1..Len(m2) :
            (/\ Extract(DataOwnerLabel, m2[i].description) = NaN
             /\ Extract(SlackLabel, m2[i].description) = NaN
             /\ NoViableDependency(i))
            => \E j \in 1..Len(manifest_result.rows) :
                  /\ manifest_result.rows[j]["unique_id"] = m2[i].unique_id
                  /\ manifest_result.rows[j]["slack_id"] = DEFAULT_SLACK_ID
                  /\ IsNull(manifest_result.rows[j]["model_owner"])

(* -------------------------------- C5 ----------------------------------- *)

\* C5: the resolver steps end without an exception and with one ownership
\* row per retained unit, in their order.
C5_ResolverTotality ==
    ResolverEnded =>
        /\ ~(pc = "raised" /\ ~Resolved)
        /\ Len(manifest_result.rows) = Len(Retained)
        /\ \A i \in 1..Len(Retained) :
              manifest_result.rows[i]["unique_id"] = Retained[i].unique_id

(* -------------------------------- C6 ----------------------------------- *)

\* the pairs of a filtered run-result row and an ownership row of one unit id
JoinPairs ==
    {p \in (1..Len(rr_result.rows)) \X (1..Len(manifest_result.rows)) :
        rr_result.rows[p[1]]["node"] = manifest_result.rows[p[2]]["unique_id"]}

\* the alert row is made of the cells of run-result row i and ownership row j
RowOfPair(row, i, j) ==
    /\ \A c \in {"clean_node_name", "status", "result", "message", "process_type"} :
          row[c] = rr_result.rows[i][c]
    /\ \A c \in {"depends_on", "model_owner", "slack_id", "path"} :
          row[c] = manifest_result.rows[j][c]

\* the alert rows are the pairs: each pair has its row and each row its pair
RowsArePairs ==
    /\ Len(final_df.rows) = Cardinality(JoinPairs)
    /\ \A n \in 1..Len(final_df.rows) :
          \E p \in JoinPairs : RowOfPair(final_df.rows[n], p[1], p[2])
    /\ \A p \in JoinPairs :
          \E n \in 1..Len(final_df.rows) : RowOfPair(final_df.rows[n], p[1], p[2])

SmallerFrame ==
    IF Len(rr_result.rows) <= Len(manifest_result.rows)
    THEN Len(rr_result.rows) ELSE Len(manifest_result.rows)

\* no unit id is in two rows of the frame
DistinctIds(df, key) ==
    \A i, j \in 1..Len(df.rows) : df.rows[i][key] = df.rows[j][key] => i = j

\* C6 as stated: the alert rows are the matching pairs, and there are at most
\* min(alerting run-results, ownership rows) of them.
C6_AtMostSmallerFrame ==
    pc = "done" => RowsArePairs /\ Len(final_df.rows) <= SmallerFrame

\* C6 as amended: the alert rows are the matching pairs; there are at most
\* min(alerting run-results, ownership rows) of them when no unit id is twice
\* in the run-results or twice in the ownership rows.
C6_InnerJoinPairs ==
    pc = "done" =>
        /\ RowsArePairs
        /\ (DistinctIds(rr_result, "node") /\ DistinctIds(manifest_result, "unique_id"))
           => Len(final_df.rows) <= SmallerFrame

\* a join that keeps a pair and drops a run-result and an ownership row
C6_Witness ==
    /\ pc = "done"
    /\ Len(final_df.rows) >= 1
    /\ DistinctIds(rr_result, "node")
    /\ \E i \in 1..Len(rr_result.rows) : \A p \in JoinPairs : p[1] # i
    /\ \E j \in 1..Len(manifest_result.rows) : \A p \in JoinPairs : p[2] # j

(* -------------------------------- C7 ----------------------------------- *)

\* the records of alerting status, in the order of the file
AlertingRecords == SelectSeq(results, LAMBDA r : r.status \in AlertingStatuses)

\* C7: the frame process_data returns holds the records of alerting status
\* and no other, in the order of the file, and no alert row has another status.
C7_StatusFilter ==
    /\ pc \in {"filtered", "done"} =>
          /\ Len(rr_result.rows) = Len(AlertingRecords)
          /\ \A n \in 1..Len(rr_result.rows) :
                /\ rr_result.rows[n]["node"] = AlertingRecords[n].unique_id
                /\ rr_result.rows[n]["status"] = AlertingRecords[n].status
                /\ rr_result.rows[n]["timing"] = AlertingRecords[n].timing
                /\ rr_result.rows[n]["result"] = AlertingRecords[n].failures
                /\ rr_result.rows[n]["message"] = AlertingRecords[n].message
    /\ pc = "done" =>
          \A n \in 1..Len(final_df.rows) :
              final_df.rows[n]["status"] \in AlertingStatuses

\* a passing record of a unit with owner and channel in its description,
\* between two alerting records that reach the output
C7_Witness ==
    /\ pc = "done"
    /\ Len(results) = 3
    /\ results[2].status = Pass
    /\ \E i \in 1..Len(m2) :
          /\ m2[i].unique_id = results[2].unique_id
          /\ m2[i].description = DescFull
    /\ Len(rr_result.rows) = 2
    /\ Len(final_df.rows) = 2

(* -------------------------------- C8 ----------------------------------- *)

\* the records whose unit id has fewer than three segments
ShortRecords == {r \in 1..Len(results) : Len(Split(results[r].unique_id, ".")) < 3}

\* C8: process_data does not fail on a unit id of fewer than three segments:
\* it returns, and such a record of alerting status is a row with its status
\* and message and no object name.
C8_TolerantIdParsing ==
    (ProcessDataCalled /\ ShortRecords # {}) =>
        /\ pc # "raised"
        /\ \A r \in ShortRecords :
              results[r].status \in AlertingStatuses =>
                  \E n \in 1..Len(rr_result.rows) :
                      /\ rr_result.rows[n]["node"] = results[r].unique_id
                      /\ rr_result.rows[n]["status"] = results[r].status
                      /\ rr_result.rows[n]["message"] = results[r].message
                      /\ IsNull(rr_result.rows[n]["object_name"])

(* -------------------------------- C9 ----------------------------------- *)

\* C9 as stated: the nine columns are the unit id, the kind or label,
\* model_owner, slack_channel, path, dependencies, status, message and timing,
\* in that order (under any of the code's names for the first two).
C9_OwnershipFirstColumns ==
    pc = "done" =>
        /\ Len(final_df.columns) = 9
        /\ final_df.columns[1] \in {"unique_id", "node", "node_x", "clean_node_name"}
        /\ final_df.columns[2] \in {"node", "node_y", "process_type"}
        /\ SubSeq(final_df.columns, 3, 9)
              = <<"model_owner", "slack_id", "path", "depends_on", "status",
                  "message", "timing">>

AlertColumns ==
    <<"clean_node_name", "depends_on", "status", "result", "message",
      "process_type", "model_owner", "slack_id", "path">>

\* C9 as amended: the nine columns are clean_node_name, depends_on, status,
\* result, message, process_type, model_owner, slack_id and path, in that
\* order, each row holding in them the cells of one joined pair.
C9_AlertColumns ==
    pc = "done" =>
        /\ final_df.columns = AlertColumns
        /\ \A n \in 1..Len(final_df.rows) :
              /\ DOMAIN final_df.rows[n] = {AlertColumns[k] : k \in 1..9}
              /\ \E p \in JoinPairs : RowOfPair(final_df.rows[n], p[1], p[2])

\* an alert row of a test, whose clean_node_name is not its four-segment id
C9_Witness ==
    /\ pc = "done"
    /\ \E n \in 1..Len(final_df.rows) :
          /\ final_df.rows[n]["process_type"] = TestKind
          /\ final_df.rows[n]["clean_node_name"] # TestT
          /\ final_df.rows[n]["result"] = <<"1">>

(* -------------------------------- C10 ---------------------------------- *)

\* lookup_related_node_for_tests has returned
LookedUp == lookup_result # EmptyFrame /\ pc # "processed"

\* the cell of slack_id_2 of row i, nan while the column does not exist
Inherited(i) ==
    IF HasColumn(lookup_result, "slack_id_2")
    THEN lookup_result.rows[i]["slack_id_2"] ELSE NaN

\* C10: a unit has an inherited channel only if it is a test whose first
\* dependency is a unit of the manifest, and it is then the text of that
\* unit's own extracted channel; a test with no channel of its own whose
\* first dependency has none ends with the default channel, and no unit ends
\* with an empty channel or with the text of nan.
C10_OneHopInheritance ==
    LookedUp =>
        \A i \in 1..Len(m2) :
            /\ IF IsTest(i) /\ FirstDependencyRow(i) # 0
               THEN Inherited(i)
                       = PyStr(Extract(SlackLabel,
                                       m2[FirstDependencyRow(i)].description))
               ELSE Inherited(i) = NaN
            /\ (/\ Resolved
                /\ IsTest(i)
                /\ FirstDependencyRow(i) # 0
                /\ Extract(SlackLabel, m2[i].description) = NaN
                /\ Extract(SlackLabel, m2[FirstDependencyRow(i)].description) = NaN)
               => manifest_result.rows[i]["slack_id"] = DEFAULT_SLACK_ID
            /\ Resolved =>
                  /\ ~IsNull(manifest_result.rows[i]["slack_id"])
                  /\ manifest_result.rows[i]["slack_id"] \notin {<<>>, PyStr(NaN)}

\* a test with no channel, whose first dependency has none and depends on a
\* unit with a channel, which is also the test's second dependency
C10_Witness ==
    /\ Resolved
    /\ \E i \in 1..Len(m2) :
          /\ IsTest(i)
          /\ Extract(SlackLabel, m2[i].description) = NaN
          /\ Len(m2[i].depends_on) = 2
          /\ FirstDependencyRow(i) # 0
          /\ Extract(SlackLabel, m2[FirstDependencyRow(i)].description) = NaN
          /\ FirstDependencyRow(FirstDependencyRow(i)) # 0
          /\ m2[FirstDependencyRow(FirstDependencyRow(i))].unique_id
                = m2[i].depends_on[2]
          /\ Extract(SlackLabel,
                     m2[FirstDependencyRow(FirstDependencyRow(i))].description) # NaN
          /\ Inherited(i) = <<"n", "a", "n">>
          /\ manifest_result.rows[i]["slack_id"] = DEFAULT_SLACK_ID

====
